---- MODULE Spec2Model ----
(***************************************************************************)
(* A model of scres, the C interface to single-cell resampling.            *)
(*                                                                         *)
(* The state is one opaque handle and the Resampler it refers to           *)
(* (src/src/resampler.rs), driven through the scres_* entry points of      *)
(* src/src/c_api.rs.  Indices are 0-based as in the source; the event at   *)
(* position pos is events[pos + 1].  A second handle, with a Resampler of  *)
(* its own, is used where two handles are in play.                         *)
(*                                                                         *)
(* The nearest-neighbour searches, the distance and the cell of the cres   *)
(* crate are not part of this repository; they are modelled by the         *)
(* contract the specification gives for them.                              *)
(***************************************************************************)
EXTENDS Integers, Sequences, FiniteSets, TLC

VARIABLES
    handle,     \* "Uninitialized" | "Constructed" | "Destroyed" | "Aborted"
    live,       \* the heap allocations made by scres_new that are still live
    resampler,  \* the Resampler struct behind the handle
    pushed,     \* history: the views pushed since the last clear
    calls,      \* history: the parity of the number of calls made
    hist,       \* history: the options requested, the last call and the
                \* seed of a resample call (SpecOps), and the buffer length
                \* at the first resample (SpecHist)
    ptr,        \* the address scres_new returned for the handle, 0 before
    other       \* a second handle: its address, state, allocations, Resampler

vars == <<handle, live, resampler, pushed, calls, hist, ptr, other>>

\* what the calls on the one handle leave alone
rest == <<hist, ptr, other>>

(***************************************************************************)
(* Bounds and sample domains                                               *)
(***************************************************************************)
MaxEvents == 2

F64_MAX == 99

\* isize::MAX, the largest size in bytes of an allocation
ISIZE_MAX == 127

Weight == {-1, 0, 1}

NumWeights == {1, 2}

Searches == {"Tree", "Naive"}

\* sequences over S with a length in Lens
SeqsOf(S, Lens) == UNION {[1..n -> S] : n \in Lens}

Abs(x) == IF x < 0 THEN -x ELSE x

Min(a, b) == IF a <= b THEN a ELSE b

RECURSIVE SumSeq(_)
SumSeq(s) == IF s = <<>> THEN 0 ELSE Head(s) + SumSeq(Tail(s))

RECURSIVE Concat(_)
Concat(ss) == IF ss = <<>> THEN <<>> ELSE Head(ss) \o Concat(Tail(ss))

(***************************************************************************)
(* Foreign event views.  An array is a sequence that may be longer than    *)
(* the count that goes with it; only the first count elements are read.    *)
(***************************************************************************)
TypeSetView(pid, momenta, n_momenta) ==
    [pid |-> pid, momenta |-> momenta, n_momenta |-> n_momenta]

EventView(id, weights, type_sets, n_weights, n_type_sets) ==
    [id |-> id, weights |-> weights, type_sets |-> type_sets,
     n_weights |-> n_weights, n_type_sets |-> n_type_sets]

\* two jets of type 90, as in the test, at one of two places
Jets(p) == <<TypeSetView(90, <<p, p + 1>>, 2)>>

\* views whose arrays hold exactly the counted elements
ViewsAt(places, lens, values) ==
    {EventView(0, w, Jets(p), Len(w), 1) : w \in SeqsOf(values, lens), p \in places}

Opts == {[neighbour_search |-> s, pt_weight |-> 0] : s \in Searches}

\* no options: scres_new was not called yet
NoOpt == [neighbour_search |-> "None", pt_weight |-> 0]

(***************************************************************************)
(* Event ingestion: impl From<ToEvent> for Event                           *)
(***************************************************************************)
EventBuilder_build(weights, outgoing) == [weights |-> weights, outgoing |-> outgoing]

\* an ingestion that reads the whole weight array, not the first n_weights
ToEvent_whole_array(view) ==
    LET set(n) == view.type_sets[n]
        of(n)  == [k \in 1..set(n).n_momenta |-> <<set(n).pid, set(n).momenta[k]>>]
    IN  EventBuilder_build(view.weights, Concat([n \in 1..view.n_type_sets |-> of(n)]))

\* an ingestion that reads every momentum array to its end
ToEvent_all_momenta(view) ==
    LET weights == [n \in 1..view.n_weights |-> view.weights[n]]
        set(n)  == view.type_sets[n]
        of(n)   == [k \in 1..Len(set(n).momenta) |-> <<set(n).pid, set(n).momenta[k]>>]
    IN  EventBuilder_build(weights, Concat([n \in 1..view.n_type_sets |-> of(n)]))

ToEvent(view) ==
    LET weights == [n \in 1..view.n_weights |-> view.weights[n]]
        set(n)  == view.type_sets[n]
        of(n)   == [k \in 1..set(n).n_momenta |-> <<set(n).pid, set(n).momenta[k]>>]
    IN  EventBuilder_build(weights, Concat([n \in 1..view.n_type_sets |-> of(n)]))

(***************************************************************************)
(* Resampler (src/src/resampler.rs)                                        *)
(***************************************************************************)
ResamplerBuilder_default == [distance |-> 0, neighbour_search |-> "Tree"]

\* a setter that starts again from the default distance
ResamplerBuilder_neighbour_search_reset(self, neighbour_search) ==
    [distance |-> ResamplerBuilder_default.distance, neighbour_search |-> neighbour_search]

ResamplerBuilder_neighbour_search(self, neighbour_search) ==
    [distance |-> self.distance, neighbour_search |-> neighbour_search]

ResamplerBuilder_distance(self, distance) ==
    [distance |-> distance, neighbour_search |-> self.neighbour_search]

ResamplerBuilder_build(self) ==
    [distance |-> self.distance, neighbour_search |-> self.neighbour_search,
     events |-> <<>>, last_retrieved_weights |-> <<>>]

InRange(self, pos) == pos < Len(self.events)

\* Vec::reserve: len + cap events, of a byte or more each, must not take
\* more than isize::MAX bytes
Fits(self, cap) == Len(self.events) + cap <= ISIZE_MAX

\* a reserve that keeps no more than cap events
Resampler_reserve_truncate(self, cap) ==
    [self EXCEPT !.events = SubSeq(@, 1, Min(Len(@), cap))]

Resampler_reserve(self, cap) == self

\* a push that puts the event in front of the buffer
Resampler_push_front(self, event) == [self EXCEPT !.events = <<event>> \o @]

Resampler_push(self, event) == [self EXCEPT !.events = Append(@, event)]

\* a get_weights that adds to the cache instead of replacing it
Resampler_get_weights_extend(self, pos) ==
    [self EXCEPT !.last_retrieved_weights = @ \o self.events[pos + 1].weights]

Resampler_get_weights(self, pos) ==
    [self EXCEPT !.last_retrieved_weights = self.events[pos + 1].weights]

Resampler_get_num_weights(self, pos) == Len(self.events[pos + 1].weights)

\* a set_weights that assigns the slice instead of writing through the zip
Resampler_set_weights_assign(self, pos, weights) ==
    [self EXCEPT !.events[pos + 1].weights = weights]

\* target_weights.iter_mut().zip(weights): pairs up to the shorter of the two
Resampler_set_weights(self, pos, weights) ==
    LET target == self.events[pos + 1].weights
        n      == Min(Len(target), Len(weights))
    IN  [self EXCEPT !.events[pos + 1].weights =
            [k \in 1..Len(target) |-> IF k <= n THEN weights[k] ELSE target[k]]]

\* a clear that empties the cache with the buffer
Resampler_clear_all(self) ==
    [self EXCEPT !.events = <<>>, !.last_retrieved_weights = <<>>]

\* a clear that removes the last event only
Resampler_clear_last(self) ==
    [self EXCEPT !.events = SubSeq(@, 1, IF @ = <<>> THEN 0 ELSE Len(@) - 1)]

Resampler_clear(self) == [self EXCEPT !.events = <<>>]

(***************************************************************************)
(* The collaborators from the cres crate, by their contract: a distance    *)
(* between events, the neighbours of a seed within max_cell_size, the cell *)
(* made of them, and a resampling step that redistributes the weights of   *)
(* the cell with an unchanged sum and no weight of the opposite sign.      *)
(***************************************************************************)
RECURSIVE SumAbsDiff(_, _)
SumAbsDiff(a, b) ==
    IF a = <<>> THEN 0 ELSE Abs(Head(a)[2] - Head(b)[2]) + SumAbsDiff(Tail(a), Tail(b))

RECURSIVE SumPtDiff(_, _)
SumPtDiff(a, b) ==
    IF a = <<>> THEN 0
    ELSE Abs(Abs(Head(a)[2]) - Abs(Head(b)[2])) + SumPtDiff(Tail(a), Tail(b))

SameParticles(a, b) ==
    /\ Len(a) = Len(b)
    /\ \A k \in 1..Len(a) : a[k][1] = b[k][1]

\* EuclWithScaledPt: pt_weight scales the difference in transverse momentum
EuclWithScaledPt_distance(pt_weight, e1, e2) ==
    IF SameParticles(e1.outgoing, e2.outgoing)
    THEN SumAbsDiff(e1.outgoing, e2.outgoing) + pt_weight * SumPtDiff(e1.outgoing, e2.outgoing)
    ELSE F64_MAX + 1

DistWrapper_new(distance, events) ==
    [i \in 0..(Len(events) - 1), j \in 0..(Len(events) - 1) |->
        EuclWithScaledPt_distance(distance, events[i + 1], events[j + 1])]

TreeSearch_new_with_dist(size, dist, max_dist) ==
    [size |-> size, dist |-> dist, max_dist |-> max_dist]

NaiveNeighbourSearch_new_with_dist(size, dist, max_dist) ==
    [size |-> size, dist |-> dist, max_dist |-> max_dist]

\* the positions of the events within max_dist of the seed, the seed included
Cell_new(events, seed, search) ==
    {seed} \cup {i \in 0..(search.size - 1) : search.dist[seed, i] <= search.max_dist}

\* the weights of the cell's events from position i on, one after the other
RECURSIVE CellWeights(_, _, _)
CellWeights(events, members, i) ==
    IF i >= Len(events) THEN <<>>
    ELSE (IF i \in members THEN events[i + 1].weights ELSE <<>>)
            \o CellWeights(events, members, i + 1)

CellWeightSum(events, members) == SumSeq(CellWeights(events, members, 0))

\* the weight sequences of length n with sum total and no weight of the other sign
Redistributions(n, total) ==
    LET sign == {w \in Weight : (total >= 0 => w >= 0) /\ (total <= 0 => w <= 0)}
    IN  {s \in [1..n -> sign] : SumSeq(s) = total}

MaxSlots == MaxEvents * (CHOOSE n \in NumWeights : \A m \in NumWeights : m <= n)

\* Redistributions, tabulated once for the lengths and sums a cell can have
RedistributionTable ==
    {<<n, total, Redistributions(n, total)>> : n \in 0..MaxSlots, total \in (-MaxSlots)..MaxSlots}

\* the events from position i on, the cell's weights replaced by new in order
RECURSIVE Rewrite(_, _, _, _)
Rewrite(events, members, i, new) ==
    IF events = <<>> THEN <<>>
    ELSE IF i \in members
         THEN LET n == Len(Head(events).weights)
              IN  <<[Head(events) EXCEPT !.weights = SubSeq(new, 1, n)]>>
                    \o Rewrite(Tail(events), members, i + 1, SubSeq(new, n + 1, Len(new)))
         ELSE <<Head(events)>> \o Rewrite(Tail(events), members, i + 1, new)

\* a resampling that sets the negative weights of the cell to zero
Cell_resample_clip(events, members) ==
    {[i \in 1..Len(events) |->
        IF (i - 1) \in members
        THEN [events[i] EXCEPT !.weights = [k \in 1..Len(@) |-> IF @[k] < 0 THEN 0 ELSE @[k]]]
        ELSE events[i]]}

\* every outcome of Cell::resample the contract allows
Cell_resample(events, members) ==
    LET old   == CellWeights(events, members, 0)
        entry == CHOOSE e \in RedistributionTable : e[1] = Len(old) /\ e[2] = SumSeq(old)
    IN  {Rewrite(events, members, 0, new) : new \in entry[3]}

\* a resample_cell that builds the cell and never resamples it
Resampler_resample_cell_unused(self, seed, max_cell_size) == {self}

\* a resample_cell that keeps the search built by the first call, over the
\* events the buffer held then
Resampler_resample_cell_kept(self, seed, max_cell_size) ==
    LET size   == IF hist.first = 0 THEN Len(self.events)
                  ELSE Min(hist.first, Len(self.events))
        search == TreeSearch_new_with_dist(size,
                        DistWrapper_new(self.distance, self.events), max_cell_size)
    IN  {[self EXCEPT !.events = evs] :
            evs \in Cell_resample(self.events, Cell_new(self.events, seed, search))}

\* a resample_cell that does not pass max_cell_size on to the search
Resampler_resample_cell_unbounded(self, seed, max_cell_size) ==
    LET search == TreeSearch_new_with_dist(Len(self.events),
                        DistWrapper_new(self.distance, self.events), F64_MAX)
    IN  {[self EXCEPT !.events = evs] :
            evs \in Cell_resample(self.events, Cell_new(self.events, seed, search))}

\* Resampler::resample_cell: the events every outcome leaves in the buffer
Resampler_resample_cell(self, seed, max_cell_size) ==
    LET cell ==
            CASE self.neighbour_search = "Tree" ->
                    Cell_new(self.events, seed,
                        TreeSearch_new_with_dist(Len(self.events),
                            DistWrapper_new(self.distance, self.events), max_cell_size))
              [] self.neighbour_search = "Naive" ->
                    Cell_new(self.events, seed,
                        NaiveNeighbourSearch_new_with_dist(Len(self.events),
                            DistWrapper_new(self.distance, self.events), max_cell_size))
    IN  {[self EXCEPT !.events = evs] : evs \in Cell_resample(self.events, cell)}

(***************************************************************************)
(* The C entry points (src/src/c_api.rs).  A call on a handle requires the *)
(* handle to be the one scres_new returned and not yet freed; an index     *)
(* past the end of the buffer panics, which ends the process.              *)
(***************************************************************************)
Live == handle = "Constructed"

\* every call is a step, also one that leaves the Resampler as it was
Called == calls' = 1 - calls

\* a panic raised after the cache was emptied for the new weights
Panic_after_cache_reset ==
    /\ Called
    /\ handle' = "Aborted"
    /\ resampler' = [resampler EXCEPT !.last_retrieved_weights = <<>>]
    /\ UNCHANGED live

\* self.events[pos] with pos past the end, or a capacity past isize::MAX:
\* the call panics
Panic ==
    /\ Called
    /\ handle' = "Aborted"
    /\ UNCHANGED <<live, resampler>>

\* the call completes and leaves the Resampler as self
Returns(self) ==
    /\ Called
    /\ UNCHANGED <<handle, live>>
    /\ resampler' = self

scres_new(opt) ==
    /\ handle = "Uninitialized"
    /\ Called
    /\ resampler' = ResamplerBuilder_build(
            ResamplerBuilder_neighbour_search(
                ResamplerBuilder_distance(ResamplerBuilder_default, opt.pt_weight),
                opt.neighbour_search))
    /\ live' = {"Resampler", "HandleBox"}
    /\ handle' = "Constructed"

\* a free that releases the box and leaves the handle usable
scres_free_still_usable ==
    /\ Live
    /\ Called
    /\ live' = live \ {"HandleBox"}
    /\ UNCHANGED <<handle, resampler>>

\* drops the Box that holds the reference, not what the reference points to
scres_free ==
    /\ Live
    /\ Called
    /\ live' = live \ {"HandleBox"}
    /\ handle' = "Destroyed"
    /\ UNCHANGED resampler

scres_reserve(cap) ==
    /\ Live
    /\ IF Fits(resampler, cap)
       THEN Returns(Resampler_reserve(resampler, cap))
       ELSE Panic

scres_push_event(event) ==
    /\ Live
    /\ Len(resampler.events) < MaxEvents
    /\ Returns(Resampler_push(resampler, ToEvent(event)))

scres_resample(seed, max_cell_size) ==
    /\ Live
    /\ IF InRange(resampler, seed)
       THEN /\ Called
            /\ UNCHANGED <<handle, live>>
            /\ resampler' \in Resampler_resample_cell(resampler, seed, max_cell_size)
       ELSE Panic

scres_get_weights(pos) ==
    /\ Live
    /\ IF InRange(resampler, pos)
       THEN Returns(Resampler_get_weights(resampler, pos))
       ELSE Panic

scres_get_num_weights(pos) ==
    /\ Live
    /\ IF InRange(resampler, pos)
       THEN Returns(resampler)
       ELSE Panic

\* CResampler::set_weights on a slice of any length
set_weights(pos, weights) ==
    /\ Live
    /\ IF InRange(resampler, pos)
       THEN Returns(Resampler_set_weights(resampler, pos, weights))
       ELSE Panic

\* a scres_set_weights whose slice starts at the second element of the array
scres_set_weights_shifted(pos, weights) ==
    /\ Live
    /\ IF InRange(resampler, pos)
       THEN LET num_weights == Resampler_get_num_weights(resampler, pos)
            IN  /\ Len(weights) >= num_weights + 1
                /\ Returns(Resampler_set_weights(resampler, pos,
                        SubSeq(weights, 2, num_weights + 1)))
       ELSE Panic

\* the slice is the first get_num_weights(pos) elements of the caller's array
scres_set_weights(pos, weights) ==
    /\ Live
    /\ IF InRange(resampler, pos)
       THEN LET num_weights == Resampler_get_num_weights(resampler, pos)
            IN  /\ Len(weights) >= num_weights
                /\ Returns(Resampler_set_weights(resampler, pos,
                        SubSeq(weights, 1, num_weights)))
       ELSE Panic

scres_clear ==
    /\ Live
    /\ Returns(Resampler_clear(resampler))

(***************************************************************************)
(* Specification Spec: every entry point on one handle.  Events have one   *)
(* or two weights and lie at one place; pushed weights are -1 or 0 and     *)
(* set_weights writes 1.                                                   *)
(***************************************************************************)
Positions == 0..MaxEvents

Capacities == {0, 2}

Views == ViewsAt({0}, NumWeights, {-1, 0})

Slices == SeqsOf({1}, 0..3)

Init ==
    /\ handle = "Uninitialized"
    /\ live = {}
    /\ resampler = ResamplerBuilder_build(ResamplerBuilder_default)
    /\ pushed = <<>>
    /\ calls = 0
    /\ hist = [opt |-> NoOpt, op |-> "none", seed |-> 0, first |-> 0]
    /\ ptr = 0
    /\ other = [ptr |-> 0, handle |-> "Uninitialized", live |-> {},
                resampler |-> ResamplerBuilder_build(ResamplerBuilder_default)]

New == \E opt \in Opts : scres_new(opt) /\ UNCHANGED <<pushed, rest>>

Free == scres_free /\ UNCHANGED <<pushed, rest>>

Reserve == \E cap \in Capacities : scres_reserve(cap) /\ UNCHANGED <<pushed, rest>>

PushEvent == \E event \in Views : scres_push_event(event) /\ UNCHANGED <<pushed, rest>>

Resample == \E seed \in Positions : scres_resample(seed, F64_MAX) /\ UNCHANGED <<pushed, rest>>

GetWeights == \E pos \in Positions : scres_get_weights(pos) /\ UNCHANGED <<pushed, rest>>

GetNumWeights == \E pos \in Positions : scres_get_num_weights(pos) /\ UNCHANGED <<pushed, rest>>

SetWeightsSlice ==
    \E pos \in Positions, weights \in Slices :
        set_weights(pos, weights) /\ UNCHANGED <<pushed, rest>>

SetWeights ==
    \E pos \in Positions, weights \in Slices :
        scres_set_weights(pos, weights) /\ UNCHANGED <<pushed, rest>>

Clear == scres_clear /\ UNCHANGED <<pushed, rest>>

Next ==
    \/ New
    \/ Free
    \/ Reserve
    \/ PushEvent
    \/ Resample
    \/ GetWeights
    \/ GetNumWeights
    \/ SetWeightsSlice
    \/ SetWeights
    \/ Clear

Spec == Init /\ [][Next]_vars

(***************************************************************************)
(* Specification SpecLog: pushes and queries only, with the pushed views   *)
(* kept as history.  A view's weight array may be longer than n_weights.   *)
(***************************************************************************)
LogViews ==
    ViewsAt({0}, NumWeights, Weight)
        \cup {EventView(0, w, Jets(0), 1, 1) : w \in SeqsOf(Weight, {2})}

LogNew == \E opt \in Opts : scres_new(opt) /\ UNCHANGED <<pushed, rest>>

LogReserve == \E cap \in Capacities : scres_reserve(cap) /\ UNCHANGED <<pushed, rest>>

LogPush ==
    \E event \in LogViews :
        /\ scres_push_event(event)
        /\ pushed' = Append(pushed, event)
        /\ UNCHANGED rest

LogGetWeights == \E pos \in Positions : scres_get_weights(pos) /\ UNCHANGED <<pushed, rest>>

LogGetNumWeights == \E pos \in Positions : scres_get_num_weights(pos) /\ UNCHANGED <<pushed, rest>>

LogClear == scres_clear /\ pushed' = <<>> /\ UNCHANGED rest

NextLog ==
    \/ LogNew
    \/ LogReserve
    \/ LogPush
    \/ LogGetWeights
    \/ LogGetNumWeights
    \/ LogClear

SpecLog == Init /\ [][NextLog]_vars

(***************************************************************************)
(* Specification SpecCell: resampling of single-weight events that lie at  *)
(* two places, with either search and a cell size of 0 or unbounded.       *)
(* Pushed weights are -1 or 1, so a weight of 0 comes from a resampling.   *)
(***************************************************************************)
CellViews == ViewsAt({0, 2}, {1}, {-1, 1})

CellSizes == {0, F64_MAX}

CellNew == \E opt \in Opts : scres_new(opt) /\ UNCHANGED <<pushed, rest>>

CellPush == \E event \in CellViews : scres_push_event(event) /\ UNCHANGED <<pushed, rest>>

CellResample ==
    \E seed \in Positions, size \in CellSizes :
        scres_resample(seed, size) /\ UNCHANGED <<pushed, rest>>

CellGetWeights == \E pos \in Positions : scres_get_weights(pos) /\ UNCHANGED <<pushed, rest>>

CellClear == scres_clear /\ UNCHANGED <<pushed, rest>>

NextCell ==
    \/ CellNew
    \/ CellPush
    \/ CellResample
    \/ CellGetWeights
    \/ CellClear

SpecCell == Init /\ [][NextCell]_vars

(***************************************************************************)
(* Specification SpecOps: every entry point on one handle, with the        *)
(* requested options and the last call kept as history.  A one-weight      *)
(* event lies at place 0 and a two-weight event at place 2; their distance *)
(* is 4 with a pt weight of 0 and 8 with a pt weight of 1, so the cell of  *)
(* size 5 holds both only with a pt weight of 0.  Pushed and written       *)
(* weights are -1 or 1, so a weight of 0 comes from a resampling.          *)
(***************************************************************************)
OpsOpts ==
    {[neighbour_search |-> "Naive", pt_weight |-> 0],
     [neighbour_search |-> "Tree", pt_weight |-> 1]}

OpsViews == ViewsAt({0}, {1}, {-1}) \cup ViewsAt({2}, {2}, {1})

OpsSizes == {5}

OpsCapacities == {0, 2, ISIZE_MAX + 1}

\* the caller's array for scres_set_weights, longer than any event's weights
OpsArrays == {<<1, -1, 1>>}

\* the call op was made
Did(op) == hist' = [hist EXCEPT !.op = op, !.seed = 0]

OpsNew ==
    \E opt \in OpsOpts :
        /\ scres_new(opt)
        /\ hist' = [hist EXCEPT !.opt = opt, !.op = "new", !.seed = 0]
        /\ UNCHANGED <<pushed, ptr, other>>

OpsFree == scres_free /\ Did("free") /\ UNCHANGED <<pushed, ptr, other>>

OpsReserve ==
    \E cap \in OpsCapacities :
        scres_reserve(cap) /\ Did("reserve") /\ UNCHANGED <<pushed, ptr, other>>

OpsPush ==
    \E event \in OpsViews :
        scres_push_event(event) /\ Did("push") /\ UNCHANGED <<pushed, ptr, other>>

OpsResample ==
    \E seed \in Positions, size \in OpsSizes :
        /\ scres_resample(seed, size)
        /\ hist' = [hist EXCEPT !.op = "resample", !.seed = seed]
        /\ UNCHANGED <<pushed, ptr, other>>

OpsGetWeights ==
    \E pos \in Positions :
        scres_get_weights(pos) /\ Did("get_weights") /\ UNCHANGED <<pushed, ptr, other>>

OpsGetNumWeights ==
    \E pos \in Positions :
        /\ scres_get_num_weights(pos)
        /\ Did("get_num_weights")
        /\ UNCHANGED <<pushed, ptr, other>>

OpsSetWeights ==
    \E pos \in Positions, weights \in OpsArrays :
        /\ scres_set_weights(pos, weights)
        /\ Did("set_weights")
        /\ UNCHANGED <<pushed, ptr, other>>

OpsClear == scres_clear /\ Did("clear") /\ UNCHANGED <<pushed, ptr, other>>

NextOps ==
    \/ OpsNew
    \/ OpsFree
    \/ OpsReserve
    \/ OpsPush
    \/ OpsResample
    \/ OpsGetWeights
    \/ OpsGetNumWeights
    \/ OpsSetWeights
    \/ OpsClear

SpecOps == Init /\ [][NextOps]_vars

(***************************************************************************)
(* Specification SpecHist: the calls that change the events, with the      *)
(* length of the buffer at the first resampling kept as history.  Views,   *)
(* options, cell size and array are those of SpecOps.                      *)
(***************************************************************************)
HistNew ==
    \E opt \in OpsOpts :
        /\ scres_new(opt)
        /\ hist' = [hist EXCEPT !.opt = opt, !.op = "new", !.seed = 0]
        /\ UNCHANGED <<pushed, ptr, other>>

HistPush ==
    \E event \in OpsViews :
        scres_push_event(event) /\ Did("push") /\ UNCHANGED <<pushed, ptr, other>>

HistResample ==
    \E seed \in Positions, size \in OpsSizes :
        /\ scres_resample(seed, size)
        /\ hist' = [hist EXCEPT !.op = "resample", !.seed = seed,
                                !.first = IF @ = 0 /\ InRange(resampler, seed)
                                          THEN Len(resampler.events) ELSE @]
        /\ UNCHANGED <<pushed, ptr, other>>

HistSetWeights ==
    \E pos \in Positions, weights \in OpsArrays :
        /\ scres_set_weights(pos, weights)
        /\ Did("set_weights")
        /\ UNCHANGED <<pushed, ptr, other>>

HistClear == scres_clear /\ Did("clear") /\ UNCHANGED <<pushed, ptr, other>>

NextHist ==
    \/ HistNew
    \/ HistPush
    \/ HistResample
    \/ HistSetWeights
    \/ HistClear

SpecHist == Init /\ [][NextHist]_vars

(***************************************************************************)
(* Specification SpecIngest: pushes of views with up to two type sets, of  *)
(* none to two momenta each, with the pushed views kept as history.  The   *)
(* weight, type-set and momentum arrays may be longer than their counts,   *)
(* and the ids differ.                                                     *)
(***************************************************************************)
IngestIds == {0, 7}

IngestWeights == {<<(<<-1>>), 1>>, <<(<<1, -1>>), 2>>, <<(<<1, -1>>), 1>>}

Electron == TypeSetView(11, <<2, 3>>, 1)

NoJets == TypeSetView(90, <<4>>, 0)

IngestTypeSets ==
    {<<Jets(0) \o <<Electron>>, 2>>, <<<<Electron>> \o Jets(0), 2>>,
     <<Jets(0) \o <<Electron>>, 1>>, <<<<NoJets>> \o Jets(0), 2>>, <<(<<>>), 0>>}

IngestViews ==
    {EventView(id, w[1], t[1], w[2], t[2]) :
        id \in IngestIds, w \in IngestWeights, t \in IngestTypeSets}

IngestNew == \E opt \in Opts : scres_new(opt) /\ UNCHANGED <<pushed, rest>>

IngestPush ==
    \E event \in IngestViews :
        /\ scres_push_event(event)
        /\ pushed' = Append(pushed, event)
        /\ UNCHANGED rest

IngestGetNumWeights ==
    \E pos \in Positions : scres_get_num_weights(pos) /\ UNCHANGED <<pushed, rest>>

IngestClear == scres_clear /\ pushed' = <<>> /\ UNCHANGED rest

NextIngest ==
    \/ IngestNew
    \/ IngestPush
    \/ IngestGetNumWeights
    \/ IngestClear

SpecIngest == Init /\ [][NextIngest]_vars

(***************************************************************************)
(* Specification SpecPair: two handles, each from a scres_new of its own,  *)
(* with calls on the two in any order: the first asked for with the tree   *)
(* search, the second with the naive one.  Box::new gives the box of a     *)
(* handle an address that no live box has; the box is freed by scres_free  *)
(* and the Resampler behind it is not.  Calls keep to their contract:      *)
(* indices are in range.                                                   *)
(***************************************************************************)
Addresses == {1, 2}

\* the addresses of the handle boxes that are allocated
LiveBoxes ==
    {a \in Addresses :
        \/ a = ptr /\ "HandleBox" \in live
        \/ a = other.ptr /\ "HandleBox" \in other.live}

FreeAddresses == Addresses \ LiveBoxes

PairViews == ViewsAt({0}, {1}, {-1, 1})

PairOpts == {[neighbour_search |-> "Tree", pt_weight |-> 0]}

OtherOpts == {[neighbour_search |-> "Naive", pt_weight |-> 0]}

\* a call on the second handle that writes to the Resampler of the first
OtherReturns_shared(self) ==
    /\ Called
    /\ other' = [other EXCEPT !.resampler = self]
    /\ resampler' = self
    /\ UNCHANGED <<handle, live, ptr>>

\* a call on the second handle completes and leaves its Resampler as self
OtherReturns(self) ==
    /\ Called
    /\ other' = [other EXCEPT !.resampler = self]
    /\ UNCHANGED <<handle, live, resampler, ptr>>

PairNew ==
    \E opt \in PairOpts, a \in FreeAddresses :
        scres_new(opt) /\ ptr' = a /\ UNCHANGED <<pushed, hist, other>>

PairFree == scres_free /\ UNCHANGED <<pushed, rest>>

PairPush == \E event \in PairViews : scres_push_event(event) /\ UNCHANGED <<pushed, rest>>

PairResample ==
    \E seed \in Positions :
        /\ InRange(resampler, seed)
        /\ scres_resample(seed, F64_MAX)
        /\ UNCHANGED <<pushed, rest>>

PairGetWeights ==
    \E pos \in Positions :
        InRange(resampler, pos) /\ scres_get_weights(pos) /\ UNCHANGED <<pushed, rest>>

PairClear == scres_clear /\ UNCHANGED <<pushed, rest>>

OtherNew ==
    \E opt \in OtherOpts, a \in FreeAddresses :
        /\ other.handle = "Uninitialized"
        /\ Called
        /\ other' = [ptr |-> a, handle |-> "Constructed",
                     live |-> {"Resampler", "HandleBox"},
                     resampler |-> ResamplerBuilder_build(
                        ResamplerBuilder_neighbour_search(
                            ResamplerBuilder_distance(ResamplerBuilder_default, opt.pt_weight),
                            opt.neighbour_search))]
        /\ UNCHANGED <<handle, live, resampler, ptr, pushed, hist>>

OtherFree ==
    /\ other.handle = "Constructed"
    /\ Called
    /\ other' = [other EXCEPT !.live = @ \ {"HandleBox"}, !.handle = "Destroyed"]
    /\ UNCHANGED <<handle, live, resampler, ptr, pushed, hist>>

OtherPush ==
    \E event \in PairViews :
        /\ other.handle = "Constructed"
        /\ Len(other.resampler.events) < MaxEvents
        /\ OtherReturns(Resampler_push(other.resampler, ToEvent(event)))
        /\ UNCHANGED <<pushed, hist>>

OtherResample ==
    \E seed \in Positions :
        /\ other.handle = "Constructed"
        /\ InRange(other.resampler, seed)
        /\ \E self \in Resampler_resample_cell(other.resampler, seed, F64_MAX) :
                OtherReturns(self)
        /\ UNCHANGED <<pushed, hist>>

OtherGetWeights ==
    \E pos \in Positions :
        /\ other.handle = "Constructed"
        /\ InRange(other.resampler, pos)
        /\ OtherReturns(Resampler_get_weights(other.resampler, pos))
        /\ UNCHANGED <<pushed, hist>>

OtherClear ==
    /\ other.handle = "Constructed"
    /\ OtherReturns(Resampler_clear(other.resampler))
    /\ UNCHANGED <<pushed, hist>>

NextPair ==
    \/ PairNew
    \/ PairFree
    \/ PairPush
    \/ PairResample
    \/ PairGetWeights
    \/ PairClear
    \/ OtherNew
    \/ OtherFree
    \/ OtherPush
    \/ OtherResample
    \/ OtherGetWeights
    \/ OtherClear

SpecPair == Init /\ [][NextPair]_vars

(***************************************************************************)
(* Properties                                                              *)
(***************************************************************************)
Events == resampler.events

WeightsOf(events) == [i \in 1..Len(events) |-> events[i].weights]

\* C1: a set_weights call on an in-range index writes values[k] into the
\* first min(existing count, len(values)) weights of that event, keeps the
\* event's further weights and every other event, and keeps every event's
\* number of weights.
C1_SetWeightsWritesPrefix ==
    [][\A pos \in Positions, weights \in Slices :
        (InRange(resampler, pos) /\ set_weights(pos, weights)) =>
            LET old == resampler.events
                new == resampler'.events
                n   == Min(Len(old[pos + 1].weights), Len(weights))
            IN  /\ Len(new) = Len(old)
                /\ \A i \in 1..Len(old) :
                        /\ Len(new[i].weights) = Len(old[i].weights)
                        /\ new[i].outgoing = old[i].outgoing
                        /\ i # pos + 1 => new[i] = old[i]
                /\ \A k \in 1..Len(old[pos + 1].weights) :
                        new[pos + 1].weights[k] =
                            IF k <= n THEN weights[k] ELSE old[pos + 1].weights[k]]_vars

\* only a one-element slice written over a two-weight event gives <<1, -1>>
C1_Witness ==
    /\ handle = "Constructed"
    /\ Len(Events) = 2
    /\ Events[1].weights = <<1, -1>>
    /\ Events[2].weights = <<-1, 0>>

\* C6: get_weights on an in-range index makes the cache a copy of that
\* event's weights, whatever the cache held, leaves the buffer as it was,
\* and a second call gives the same again.
C6_GetWeightsCopiesIntoCache ==
    [][\A pos \in Positions :
        (InRange(resampler, pos) /\ scres_get_weights(pos)) =>
            /\ resampler'.last_retrieved_weights = resampler.events[pos + 1].weights
            /\ resampler'.events = resampler.events
            /\ Resampler_get_weights(resampler', pos) = resampler']_vars

\* the cache holds the second event's weights after it held the first's
C6_Witness ==
    /\ handle = "Constructed"
    /\ Len(Events) = 2
    /\ Len(Events[1].weights) = 1
    /\ resampler.last_retrieved_weights = Events[2].weights
    /\ resampler.last_retrieved_weights = <<-1, 0>>

C8_FreeReleasesEverything == handle = "Destroyed" => live = {}

\* C10: a push makes the buffer one longer, puts the new event at the old
\* length and keeps the events before it.
C10_PushAppends ==
    [][\A event \in Views :
        scres_push_event(event) =>
            LET old == resampler.events
                new == resampler'.events
            IN  /\ Len(new) = Len(old) + 1
                /\ new[Len(old) + 1].weights = SubSeq(event.weights, 1, event.n_weights)
                /\ SubSeq(new, 1, Len(old)) = old]_vars

\* two different events, in the order they were pushed
C10_Witness ==
    /\ handle = "Constructed"
    /\ WeightsOf(Events) = <<(<<-1>>), (<<0, -1>>)>>

\* C2: with pushes, reserves and queries only, the event at index i has the
\* weight count of the i-th pushed view and get_weights(i) gives that
\* view's first n_weights weights, in order.
C2_RoundTripByIndex ==
    /\ Len(Events) = Len(pushed)
    /\ \A i \in 0..(Len(pushed) - 1) :
          LET view == pushed[i + 1]
          IN  /\ Resampler_get_num_weights(resampler, i) = view.n_weights
              /\ Resampler_get_weights(resampler, i).last_retrieved_weights
                    = [k \in 1..view.n_weights |-> view.weights[k]]

\* two pushes, the first from an array longer than its count, then a read
\* of the second event
C2_Witness ==
    /\ handle = "Constructed"
    /\ Len(pushed) = 2
    /\ Len(pushed[1].weights) > pushed[1].n_weights
    /\ pushed[2].weights = <<1, -1>>
    /\ resampler.last_retrieved_weights = <<1, -1>>

\* C9: a clear leaves an empty buffer in which every index is out of
\* range, a clear of that buffer leaves it empty again, and an event pushed
\* afterwards sits at the number of events pushed since the clear.
C9_ClearRestartsIndices ==
    [][/\ scres_clear =>
            /\ resampler'.events = <<>>
            /\ \A pos \in Positions : ~InRange(resampler', pos)
            /\ Resampler_clear(resampler').events = <<>>
       /\ Len(resampler'.events) = Len(pushed')
       /\ \A event \in LogViews :
            scres_push_event(event) =>
                /\ InRange(resampler', Len(pushed))
                /\ Resampler_get_num_weights(resampler', Len(pushed)) = event.n_weights
                /\ \A i \in 0..(Len(pushed) - 1) :
                      resampler'.events[i + 1].weights
                        = SubSeq(pushed[i + 1].weights, 1, pushed[i + 1].n_weights)]_vars

\* one event pushed since a clear, and the cache still holds the weights of
\* an event that the clear removed
C9_Witness ==
    /\ handle = "Constructed"
    /\ Len(pushed) = 1
    /\ Len(Events) = 1
    /\ Events[1].weights = <<0>>
    /\ resampler.last_retrieved_weights = <<1, 1>>

\* the events within size of the seed, by the distance of the configuration
WithinCell(self, seed, size) ==
    {i \in 0..(Len(self.events) - 1) :
        EuclWithScaledPt_distance(self.distance, self.events[seed + 1], self.events[i + 1])
            <= size}

RECURSIVE WeightSum(_, _)
WeightSum(events, members) ==
    IF members = {} THEN 0
    ELSE LET i == CHOOSE i \in members : TRUE
         IN  SumSeq(events[i + 1].weights) + WeightSum(events, members \ {i})

\* C3: a resample_cell call leaves the sum of the weights of the cell's
\* events, and so the sum over the buffer, as it was, for either search.
C3_ResampleKeepsCellSum ==
    [][\A seed \in Positions, size \in CellSizes :
        (InRange(resampler, seed) /\ scres_resample(seed, size)) =>
            LET cell == WithinCell(resampler, seed, size)
                all  == 0..(Len(resampler.events) - 1)
            IN  /\ WeightSum(resampler'.events, cell) = WeightSum(resampler.events, cell)
                /\ WeightSum(resampler'.events, all) = WeightSum(resampler.events, all)]_vars

\* two events at different places, resampled as one cell by the naive search
C3_Witness ==
    /\ handle = "Constructed"
    /\ resampler.neighbour_search = "Naive"
    /\ Len(Events) = 2
    /\ Events[1].outgoing # Events[2].outgoing
    /\ WeightsOf(Events) = <<(<<0>>), (<<0>>)>>

\* C5: resampling from a seed of weight -1 whose only neighbour has weight
\* +1 leaves both with weight 0, which get_weights then returns; the sum of
\* the two weights is 0 before and after.
C5_OppositePairCancels ==
    [][\A seed \in {0, 1}, size \in CellSizes :
        (/\ Len(resampler.events) = 2
         /\ resampler.events[seed + 1].weights = <<-1>>
         /\ resampler.events[2 - seed].weights = <<1>>
         /\ (1 - seed) \in WithinCell(resampler, seed, size)
         /\ scres_resample(seed, size)) =>
            /\ WeightSum(resampler.events, {0, 1}) = 0
            /\ WeightSum(resampler'.events, {0, 1}) = 0
            /\ \A pos \in {0, 1} :
                  /\ resampler'.events[pos + 1].weights = <<0>>
                  /\ Resampler_get_weights(resampler', pos).last_retrieved_weights = <<0>>]_vars

\* the test's run: tree search, -1 then +1, resample, and a weight read back
C5_Witness ==
    /\ handle = "Constructed"
    /\ resampler.neighbour_search = "Tree"
    /\ WeightsOf(Events) = <<(<<0>>), (<<0>>)>>
    /\ Events[1].outgoing # Events[2].outgoing
    /\ resampler.last_retrieved_weights = <<0>>

\* C11: a resample_cell call keeps the length and the order of the buffer,
\* every event's particles and number of weights, the cache and the
\* configuration; the events outside the cell keep their weights.
C11_ResampleFrame ==
    [][\A seed \in {hist'.seed}, size \in OpsSizes :
        \/ hist'.op # "resample"
        \/ LET old  == resampler.events
               new  == resampler'.events
           IN  /\ InRange(resampler, seed)
               /\ resampler'.last_retrieved_weights = resampler.last_retrieved_weights
               /\ resampler'.distance = resampler.distance
               /\ resampler'.neighbour_search = resampler.neighbour_search
               /\ \/ new = old
                  \/ /\ Len(new) = Len(old)
                     /\ \A i \in 1..Len(old) :
                         \/ new[i] = old[i]
                         \/ /\ new[i].outgoing = old[i].outgoing
                            /\ Len(new[i].weights) = Len(old[i].weights)
                            /\ EuclWithScaledPt_distance(resampler.distance,
                                    old[seed + 1], old[i]) <= size
        \/ ~(InRange(resampler, seed) /\ scres_resample(seed, size))]_vars

\* a resampling that made <<1, -1>> into <<0, 0>> while the cache held the
\* weights read before it, with an event that a cell of size 5 leaves out
C11_Witness ==
    /\ handle = "Constructed"
    /\ hist.op = "resample"
    /\ hist.opt.pt_weight = 1
    /\ WeightsOf(Events) = <<(<<-1>>), (<<0, 0>>)>>
    /\ resampler.last_retrieved_weights = <<1, -1>>

\* C12: get_num_weights, get_weights and set_weights with an index at or
\* past the length of the buffer, an empty or cleared buffer included, do
\* not return: they end in the bounds panic, with the buffer and the cache
\* as they were.  Nothing else aborts, and nothing follows the abort.
C12_OutOfRangePanics ==
    [][/\ \A pos \in Positions :
            (/\ ~InRange(resampler, pos)
             /\ \/ scres_get_num_weights(pos)
                \/ scres_get_weights(pos)
                \/ \E weights \in Slices :
                        set_weights(pos, weights) \/ scres_set_weights(pos, weights)) =>
                /\ handle' = "Aborted"
                /\ resampler' = resampler
       /\ handle' = "Aborted" =>
            /\ \E pos \in Positions : ~InRange(resampler, pos)
            /\ resampler'.events = resampler.events
            /\ resampler'.last_retrieved_weights = resampler.last_retrieved_weights
       /\ handle # "Aborted"]_vars

\* an index used on a cleared buffer, while the cache still holds weights
C12_Witness ==
    /\ handle = "Aborted"
    /\ Events = <<>>
    /\ resampler.last_retrieved_weights = <<-1, 0>>

\* C13: a reserve call of a capacity that the buffer can be grown by
\* returns and leaves the configuration, the events and the cache as they
\* were; a capacity past isize::MAX bytes panics, also with the state as
\* it was.
C13_ReserveNoEffectIfFits ==
    [][\A cap \in OpsCapacities :
        (hist'.op = "reserve" /\ scres_reserve(cap)) =>
            /\ resampler' = resampler
            /\ Fits(resampler, cap) => handle' = handle
            /\ ~Fits(resampler, cap) => handle' = "Aborted"]_vars

\* C13 as stated: a reserve call of any capacity returns and leaves the
\* events and the cache as they were.
C13_ReserveNoEffect ==
    [][\A cap \in OpsCapacities :
        (hist'.op = "reserve" /\ scres_reserve(cap)) =>
            /\ resampler' = resampler
            /\ handle' = handle]_vars

\* a reserve that returned, on a buffer of two events and a filled cache
C13_Witness ==
    /\ handle = "Constructed"
    /\ hist.op = "reserve"
    /\ Len(Events) = 2
    /\ resampler.last_retrieved_weights = <<1, 1>>

\* the builders over the sample options
Builders == {[distance |-> t, neighbour_search |-> s] : s \in Searches, t \in {0, 1}}

\* C14: scres_new leaves a Constructed handle to a Resampler with an empty
\* buffer, an empty cache and the requested search and pt weight, and the
\* configuration stays the requested one whatever is called afterwards.
\* The builder starts with Tree, a setter changes its own field only, the
\* two setters commute, and build adds an empty buffer and an empty cache.
C14_Construction ==
    /\ hist.op = "new" =>
            /\ handle = "Constructed"
            /\ resampler.events = <<>>
            /\ resampler.last_retrieved_weights = <<>>
    /\ handle # "Uninitialized" =>
            /\ resampler.neighbour_search = hist.opt.neighbour_search
            /\ resampler.distance = hist.opt.pt_weight
    /\ ResamplerBuilder_default.neighbour_search = "Tree"
    /\ \A b \in Builders, s \in Searches, t \in {0, 1} :
            /\ ResamplerBuilder_neighbour_search(b, s) = [b EXCEPT !.neighbour_search = s]
            /\ ResamplerBuilder_distance(b, t) = [b EXCEPT !.distance = t]
            /\ ResamplerBuilder_neighbour_search(ResamplerBuilder_distance(b, t), s)
                 = ResamplerBuilder_distance(ResamplerBuilder_neighbour_search(b, s), t)
            /\ ResamplerBuilder_build(b) =
                 [distance |-> b.distance, neighbour_search |-> b.neighbour_search,
                  events |-> <<>>, last_retrieved_weights |-> <<>>]

\* a Resampler asked for with Tree and a pt weight of 1, after pushes, a
\* read, a write and a resampling
C14_Witness ==
    /\ handle = "Constructed"
    /\ hist.opt = [neighbour_search |-> "Tree", pt_weight |-> 1]
    /\ hist.op = "resample"
    /\ WeightsOf(Events) = <<(<<1>>), (<<0, 0>>)>>
    /\ resampler.last_retrieved_weights = <<-1>>

\* new is a buffer that a resampling of the cell around seed may leave of
\* old, by the configuration and the events of old alone: the events within
\* size of the seed have their weights redistributed with the same sum and
\* none of the other sign, and the other events are as they were
Outcome(distance, old, new, seed, size) ==
    LET cell  == WithinCell([distance |-> distance, events |-> old], seed, size)
        total == WeightSum(old, cell)
    IN  /\ Len(new) = Len(old)
        /\ \A i \in 1..Len(old) :
                IF (i - 1) \in cell
                THEN /\ new[i].outgoing = old[i].outgoing
                     /\ Len(new[i].weights) = Len(old[i].weights)
                     /\ \A k \in 1..Len(new[i].weights) :
                            /\ new[i].weights[k] \in Weight
                            /\ total >= 0 => new[i].weights[k] >= 0
                            /\ total <= 0 => new[i].weights[k] <= 0
                ELSE new[i] = old[i]
        /\ WeightSum(new, cell) = total

\* C15: what a resample_cell call leaves is determined by the configuration
\* and the events in the buffer at the call, whatever was pushed, cleared,
\* written, read or resampled before: the cell is made of the events now in
\* the buffer, those pushed after an earlier resampling included.
C15_ResampleFromBufferAlone ==
    [][\A seed \in {hist'.seed}, size \in OpsSizes :
        \/ hist'.op # "resample"
        \/ /\ InRange(resampler, seed)
           /\ Outcome(hist.opt.pt_weight, resampler.events, resampler'.events, seed, size)
        \/ ~(InRange(resampler, seed) /\ scres_resample(seed, size))]_vars

\* the first resampling saw one event; the one just made left 0 in both
\* events of the buffer, so the event pushed in between took part
C15_Witness ==
    /\ handle = "Constructed"
    /\ hist.op = "resample"
    /\ hist.first = 1
    /\ WeightsOf(Events) = <<(<<0>>), (<<0, 0>>)>>

\* C16: scres_set_weights on an in-range index makes every weight of that
\* event the array element of the same position, ignores the array past the
\* event's number of weights, keeps that number, and a get_weights that
\* follows gives those values.
C16_SetWeightsReadsCount ==
    [][\A pos \in Positions, weights \in OpsArrays :
        (/\ hist'.op = "set_weights"
         /\ InRange(resampler, pos)
         /\ scres_set_weights(pos, weights)) =>
            LET n   == Resampler_get_num_weights(resampler, pos)
                new == resampler'.events[pos + 1].weights
            IN  /\ n < Len(weights)
                /\ Len(new) = n
                /\ \A k \in 1..n : new[k] = weights[k]
                /\ Resampler_get_num_weights(resampler', pos) = n
                /\ Resampler_get_weights(resampler', pos).last_retrieved_weights
                      = SubSeq(weights, 1, n)]_vars

\* the first two of three array elements written to a two-weight event and
\* read back
C16_Witness ==
    /\ handle = "Constructed"
    /\ hist.op = "get_weights"
    /\ Len(Events) = 2
    /\ Events[2].weights = <<1, -1>>
    /\ resampler.last_retrieved_weights = <<1, -1>>

\* the number of momenta counted in the type sets before the n-th
RECURSIVE Offset(_, _)
Offset(view, n) ==
    IF n <= 1 THEN 0 ELSE Offset(view, n - 1) + view.type_sets[n - 1].n_momenta

\* C17: the event made from a view has the view's first n_weights weights
\* in order, and one (pid, momentum) entry for each of the first n_momenta
\* momenta of each of the first n_type_sets type sets, set after set and in
\* the order within the set; it has n_weights weights and as many entries
\* as the counted momenta, and it is the same event whatever the view's id.
C17_Ingestion ==
    /\ Len(Events) = Len(pushed)
    /\ \A i \in 1..Len(pushed) :
          LET view  == pushed[i]
              event == Events[i]
          IN  /\ Len(event.weights) = view.n_weights
              /\ \A k \in 1..view.n_weights : event.weights[k] = view.weights[k]
              /\ Len(event.outgoing) = Offset(view, view.n_type_sets + 1)
              /\ \A n \in 1..view.n_type_sets :
                    \A k \in 1..view.type_sets[n].n_momenta :
                        event.outgoing[Offset(view, n) + k]
                            = <<view.type_sets[n].pid, view.type_sets[n].momenta[k]>>
              /\ \A id \in IngestIds : ToEvent([view EXCEPT !.id = id]) = event

\* an event made from a view of id 7 with one counted weight of two, an
\* electron set with one counted momentum of two, and then two jets
C17_Witness ==
    /\ handle = "Constructed"
    /\ Len(pushed) = 1
    /\ pushed[1].id = 7
    /\ Events[1].weights = <<1>>
    /\ Events[1].outgoing = <<(<<11, 2>>), (<<90, 0>>), (<<90, 1>>)>>

\* C18: the cache changes only in a get_weights call on an in-range index;
\* reserve, push, get_num_weights, set_weights, resample_cell, clear and
\* free leave what the last get_weights put there, also when the event it
\* was read from has changed or is gone.
C18_OnlyGetWeightsWritesCache ==
    [][/\ resampler'.last_retrieved_weights # resampler.last_retrieved_weights =>
            \E pos \in Positions : InRange(resampler, pos) /\ scres_get_weights(pos)
       /\ hist'.op # "get_weights" =>
            resampler'.last_retrieved_weights = resampler.last_retrieved_weights]_vars

\* the cache holds the -1 read from the only event, whose weight has since
\* been set to 1
C18_Witness ==
    /\ handle = "Constructed"
    /\ hist.op = "set_weights"
    /\ WeightsOf(Events) = <<(<<1>>)>>
    /\ resampler.last_retrieved_weights = <<-1>>

\* a call on the first handle, by what it does to that handle
CallOnFirst ==
    \/ \E opt \in PairOpts : scres_new(opt)
    \/ scres_free
    \/ scres_clear
    \/ \E event \in PairViews : scres_push_event(event)
    \/ \E pos \in Positions :
            /\ InRange(resampler, pos)
            /\ scres_get_weights(pos) \/ scres_resample(pos, F64_MAX)

\* no step changes both handles, and the first handle changes as a call on
\* it alone would change it
Isolated ==
    /\ <<handle, live, resampler, ptr>>' = <<handle, live, resampler, ptr>>
            \/ other' = other
    /\ <<handle, live, resampler>>' # <<handle, live, resampler>> => CallOnFirst

====
